---- MODULE Spec2Model ----
(***************************************************************************)
(* Model of the YouTube transcript generator (src/app.py): the video-id    *)
(* extractor, the captions / download / Whisper wrappers and the           *)
(* "Generate Transcript" button handler that sequences them.               *)
(*                                                                         *)
(* Text is modelled as a sequence of one-character strings, so that        *)
(* splitting, regular-expression search, joining and formatting are        *)
(* computed character by character as the Python code computes them.       *)
(***************************************************************************)
EXTENDS Naturals, Integers, Sequences, FiniteSets, TLC

\* ------------------------------------------------------------------ text

\* Python's None; distinct from every text (its single element is no character).
NoneVal == <<"None">>

\* A list variable that holds no list; no list of texts equals it.
NoList == <<NoneVal>>

\* What the debug expander holds while it renders nothing (empty URL).
Hidden == <<"hidden">>

\* str(None), as an f-string formats it.
NoneText == <<"N", "o", "n", "e">>

\* The character class [0-9A-Za-z_-] of the three patterns.
IdChars ==
    {"0", "1", "2", "3", "4", "5", "6", "7", "8", "9",
     "A", "B", "C", "D", "E", "F", "G", "H", "I", "J", "K", "L", "M", "N", "O", "P", "Q", "R", "S", "T", "U", "V", "W", "X", "Y", "Z",
     "a", "b", "c", "d", "e", "f", "g", "h", "i", "j", "k", "l", "m", "n", "o", "p", "q", "r", "s", "t", "u", "v", "w", "x", "y", "z",
     "_", "-"}

\* The repetition count {11} of the three patterns.
IdLen == 11

\* The literals of the patterns, of the file scan and of the file names.
LitVEq == <<"v", "=">>
LitSlash == <<"/">>
LitYoutuBe == <<"y", "o", "u", "t", "u", ".", "b", "e", "/">>
LitEmbed == <<"e", "m", "b", "e", "d", "/">>
LitAudio == <<"a", "u", "d", "i", "o">>
TranscriptPrefix == <<"t", "r", "a", "n", "s", "c", "r", "i", "p", "t", "_">>
AiTranscriptPrefix == <<"a", "i", "_", "t", "r", "a", "n", "s", "c", "r", "i", "p", "t", "_">>
TxtSuffix == <<".", "t", "x", "t">>
Newline == <<"\n">>

\* ---------------------------------------------------------------- inputs

\* Bounds of the collaborators' answers.
MaxSnippets == 2
MaxFiles == 2

\* Video identifiers used to build the URLs the user may type.
VideoIds ==
    { <<"L", "a", "d", "c", "L", "Q", "I", "K", "b", "N", "Y">>,
      <<"d", "Q", "w", "4", "w", "9", "W", "g", "X", "c", "Q">> }

\* The pieces of the three documented URL shapes.
WatchMarker == <<"/", "w", "a", "t", "c", "h", "?", "v", "=">>
ShortMarker == <<"y", "o", "u", "t", "u", ".", "b", "e", "/">>
EmbedMarker == <<"/", "e", "m", "b", "e", "d", "/">>
WatchPrefixes ==
    { <<"h", "t", "t", "p", "s", ":", "/", "/", "w", "w", "w", ".", "y", "o", "u", "t", "u", "b", "e", ".", "c", "o", "m">>,
      <<"h", "t", "t", "p", "s", ":", "/", "/", "m", ".", "y", "o", "u", "t", "u", "b", "e", ".", "c", "o", "m">> }
WatchSuffixes ==
    { <<>>,
      <<"&", "t", "=", "4", "2", "s">>,
      <<"&", "l", "i", "s", "t", "=", "P", "L", "?", "x">> }
ShortPrefixes ==
    { <<>>,
      <<"h", "t", "t", "p", "s", ":", "/", "/">> }
ShortSuffixes ==
    { <<>>,
      <<"?", "s", "i", "=", "a", "b", "c">>,
      <<"?", "t", "=", "1", "&", "x", "=", "2">> }
EmbedPrefixes ==
    { <<"h", "t", "t", "p", "s", ":", "/", "/", "w", "w", "w", ".", "y", "o", "u", "t", "u", "b", "e", ".", "c", "o", "m">> }
EmbedSuffixes ==
    { <<>>,
      <<"?", "s", "t", "a", "r", "t", "=", "5">> }

WatchUrls(id) == { p \o WatchMarker \o id \o s : p \in WatchPrefixes, s \in WatchSuffixes }
ShortUrls(id) == { p \o ShortMarker \o id \o s : p \in ShortPrefixes, s \in ShortSuffixes }
EmbedUrls(id) == { p \o EmbedMarker \o id \o s : p \in EmbedPrefixes, s \in EmbedSuffixes }
ShapeUrls(id) == WatchUrls(id) \cup ShortUrls(id) \cup EmbedUrls(id)

\* Other things a user may type: nothing, free text, other sites, a path
\* segment that is too short or too long for an identifier.
OtherUrls ==
    { <<>>,
      <<"n", "o", "t", " ", "a", " ", "u", "r", "l">>,
      <<"h", "t", "t", "p", "s", ":", "/", "/", "e", "x", "a", "m", "p", "l", "e", ".", "c", "o", "m", "/", "a", "b", "c", "d", "e", "f", "g", "h", "i", "j", "k", "l", "m", "n", "o", "p">>,
      <<"h", "t", "t", "p", "s", ":", "/", "/", "y", "o", "u", "t", "u", ".", "b", "e", "/", "s", "h", "o", "r", "t">>,
      <<"h", "t", "t", "p", "s", ":", "/", "/", "y", "o", "u", "t", "u", ".", "b", "e", "/", "L", "a", "d", "c", "L", "Q", "I", "K", "b", "N", "Y", "x", "y", "z">>,
      <<"h", "t", "t", "p", "s", ":", "/", "/", "v", "i", "m", "e", "o", ".", "c", "o", "m", "/", "1", "2", "3", "4", "5">> }

Urls == OtherUrls \cup UNION { ShapeUrls(id) : id \in VideoIds }

\* Caption snippet texts and Whisper texts.
Texts ==
    { <<>>,
      <<"h", "i">>,
      <<"y", "o">> }

\* Names the download collaborator may leave in the temporary directory.
FileNames ==
    { <<"a", "u", "d", "i", "o", ".", "w", "e", "b", "m">>,
      <<"a", "u", "d", "i", "o", ".", "m", "4", "a">>,
      <<"v", "i", "d", "e", "o", ".", "p", "a", "r", "t">> }

\* ------------------------------------------------- extract_video_id

\* c in s
Contains(s, c) == \E i \in 1..Len(s) : s[i] = c

\* s.split(c)[0]: the text before the first c, all of s when it has none.
SplitFirst(s, c) ==
    IF Contains(s, c)
    THEN SubSeq(s, 1, (CHOOSE i \in 1..Len(s) : s[i] = c /\ \A j \in 1..(i - 1) : s[j] # c) - 1)
    ELSE s

\* url.split('&')[0].split('?')[0] if '?' in url else url
StripParams(url) ==
    IF Contains(url, "?") THEN SplitFirst(SplitFirst(url, "&"), "?") ELSE url

\* The literal lit stands in s at position i.
LitAt(s, lit, i) ==
    /\ i + Len(lit) - 1 <= Len(s)
    /\ \A k \in 1..Len(lit) : s[i + k - 1] = lit[k]

\* [0-9A-Za-z_-]{11} matches in s from position j on.
IdRunAt(s, j) ==
    /\ j + IdLen - 1 <= Len(s)
    /\ \A k \in 0..(IdLen - 1) : s[j + k] \in IdChars

\* The patterns, each as the ordered alternatives of its literal head; every
\* pattern continues with the group ([0-9A-Za-z_-]{11}).
\*   r'(?:v=|/)([0-9A-Za-z_-]{11}).*'
\*   r'youtu\.be/([0-9A-Za-z_-]{11})'
\*   r'embed/([0-9A-Za-z_-]{11})'
Patterns == << <<LitVEq, LitSlash>>, <<LitYoutuBe>>, <<LitEmbed>> >>

\* The alternative of pattern p that matches at position i (0 when none does);
\* the regex engine tries the alternatives in order.
AltAt(s, p, i) ==
    LET ok == { a \in 1..Len(p) : LitAt(s, p[a], i) /\ IdRunAt(s, i + Len(p[a])) }
    IN IF ok = {} THEN 0 ELSE CHOOSE a \in ok : \A b \in ok : a <= b

\* re.search(pattern, s).group(1): the group of the leftmost match, NoneVal
\* when the pattern matches nowhere.
SearchGroup(s, p) ==
    LET starts == { i \in 1..Len(s) : AltAt(s, p, i) # 0 }
    IN IF starts = {} THEN NoneVal
       ELSE LET i == CHOOSE x \in starts : \A y \in starts : x <= y
                j == i + Len(p[AltAt(s, p, i)])
            IN SubSeq(s, j, j + IdLen - 1)

\* The loop over the patterns from pattern k on: the first pattern whose
\* match has a group of length 11 decides; None after the last.
RECURSIVE FirstMatch(_, _)
FirstMatch(s, k) ==
    IF k > Len(Patterns) THEN NoneVal
    ELSE LET g == SearchGroup(s, Patterns[k])
         IN IF g # NoneVal /\ Len(g) = 11 THEN g ELSE FirstMatch(s, k + 1)

extract_video_id(url) == FirstMatch(StripParams(url), 1)

\* ------------------------------------------------- other pure helpers

\* Python truthiness of a transcript: None and '' are falsy.
Truthy(t) == t # NoneVal /\ t # <<>>

\* A join that forgets the separator: ''.join(texts).
RECURSIVE JoinLinesNoSep(_)
JoinLinesNoSep(texts) ==
    IF Len(texts) = 0 THEN <<>> ELSE texts[1] \o JoinLinesNoSep(Tail(texts))

\* '\n'.join(texts)
RECURSIVE JoinLines(_)
JoinLines(texts) ==
    IF Len(texts) = 0 THEN <<>>
    ELSE IF Len(texts) = 1 THEN texts[1]
    ELSE texts[1] \o Newline \o JoinLines(Tail(texts))

\* f"{x}" for a video id or None
Str(x) == IF x = NoneVal THEN NoneText ELSE x

\* f"transcript_{extract_video_id(video_url)}.txt"
CaptionsFileName(url) == TranscriptPrefix \o Str(extract_video_id(url)) \o TxtSuffix

\* f"ai_transcript_{extract_video_id(video_url)}.txt"
WhisperFileName(url) == AiTranscriptPrefix \o Str(extract_video_id(url)) \o TxtSuffix

\* A scan that takes every file of the directory.
StartsWithAnything(f) == TRUE

\* f.startswith("audio")
StartsWithAudio(f) == LitAt(f, LitAudio, 1)

\* [f for f in listing if f.startswith("audio")]
AudioFiles(listing) == SelectSeq(listing, StartsWithAudio)

\* The orders in which os.listdir may return the files of a directory.
Listings(files) ==
    { l \in [1..Cardinality(files) -> files] : \A f \in files : \E i \in DOMAIN l : l[i] = f }

\* The sequences of snippet texts the captions collaborator may return.
SnippetSeqs == UNION { [1..n -> Texts] : n \in 0..MaxSnippets }

\* The sets of files the download collaborator may leave behind.
FileSets == { F \in SUBSET FileNames : Cardinality(F) <= MaxFiles }

\* ---------------------------------------------------------------- state

VARIABLES
    video_url,          \* the content of the URL text input
    debug_video_id,     \* "Extracted Video ID" of the debug expander
    pc,                 \* position of the button handler
    raw_data,           \* the snippet texts the captions collaborator returned
    transcript,         \* the handler's transcript
    method,             \* the handler's method tag or failure reason
    calls,              \* collaborators invoked in this run, in order
    temp_dir,           \* "none", "exists" or "removed"
    temp_files,         \* names of the files in the temporary directory
    downloaded,         \* what download_audio returned: "none", "True", "False"
    audio_files,        \* the "audio*" names found by the directory scan
    actual_audio_path,  \* the file handed to Whisper
    messages,           \* st.success / st.error / st.info boxes of this run
    file_name,          \* file name of the download button
    progress_bar,       \* the progress placeholder, <<>> when empty
    status_text,        \* the status placeholder, <<>> when empty
    status_log          \* every text the status placeholder showed in this run

vars == <<video_url, debug_video_id, pc, raw_data, transcript, method, calls,
          temp_dir, temp_files, downloaded, audio_files, actual_audio_path,
          messages, file_name, progress_bar, status_text, status_log>>

Resting == {"Idle", "Done", "Failed"}

\* The texts of the user-visible surface.
StatusChecking == "Checking for existing captions..."
StatusFound == "Found existing captions!"
StatusDownloading == "No captions found. Downloading audio..."
StatusTranscribing == "Transcribing with Whisper AI..."
StatusCompleted == "AI transcription completed!"
MsgCaptionsDone == <<"success", "Transcript generated successfully using existing captions!">>
MsgWhisperDone == <<"success", "Transcript generated successfully using AI speech recognition!">>
MsgCopyHint == <<"info", "You can also copy the text directly from the transcript area above">>
MsgModelInfo == <<"info", "Generated using Whisper model">>
MsgEmptyUrl == <<"error", "Please enter a YouTube URL">>
MsgDownloadRaised == <<"error", "Audio download failed">>
MsgDownloadFailed == <<"error", "Failed to download video audio">>
MsgAudioMissing == <<"error", "Audio file not found after download">>
MsgTranscribeFailed == <<"error", "Failed to transcribe audio">>
MsgCatchAll == <<"error", "An error occurred">>

\* What a script run shows before the button handler has run.
FreshRun ==
    /\ raw_data = NoList
    /\ transcript = NoneVal
    /\ method = "none"
    /\ calls = <<>>
    /\ temp_dir = "none"
    /\ temp_files = {}
    /\ downloaded = "none"
    /\ audio_files = NoList
    /\ actual_audio_path = NoneVal
    /\ messages = <<>>
    /\ file_name = NoneVal
    /\ progress_bar = <<>>
    /\ status_text = <<>>
    /\ status_log = <<>>

Init ==
    /\ video_url = <<>>
    /\ debug_video_id = Hidden
    /\ pc = "Idle"
    /\ FreshRun

\* The debug expander: rendered only for a non-empty URL.
DebugInfo(url) == IF url # <<>> THEN extract_video_id(url) ELSE Hidden

\* status_text.text(s); progress_bar.progress(p)
Show(s, p) ==
    /\ status_text' = <<s>>
    /\ status_log' = Append(status_log, s)
    /\ progress_bar' = <<p>>

\* finally: progress_bar.empty(); status_text.empty()
ClearIndicators ==
    /\ status_text' = <<>>
    /\ progress_bar' = <<>>

\* The directory once the scope of tempfile.TemporaryDirectory() is left,
\* normally or by an exception.
ScopeExit(dir) == "removed"

\* if transcript and method == "captions":
CaptionsBranch(t, m) == Truthy(t) /\ m = "captions"

\* A test that only rejects None: if transcript is not None.
TranscriptNotNone(t) == t # NoneVal

\* if transcript:   (after transcribe_with_whisper)
TranscriptOk(t) == Truthy(t)

\* -------------------------------------------------------------- actions

\* The user edits the URL between runs: the script reruns with the button
\* not pressed, so nothing of the previous run is shown any more.
EnterUrl ==
    /\ pc \in Resting
    /\ \E u \in Urls :
        /\ video_url' = u
        /\ debug_video_id' = DebugInfo(u)
    /\ pc' = "Idle"
    /\ raw_data' = NoList
    /\ transcript' = NoneVal
    /\ method' = "none"
    /\ calls' = <<>>
    /\ temp_dir' = "none"
    /\ temp_files' = {}
    /\ downloaded' = "none"
    /\ audio_files' = NoList
    /\ actual_audio_path' = NoneVal
    /\ messages' = <<>>
    /\ file_name' = NoneVal
    /\ progress_bar' = <<>>
    /\ status_text' = <<>>
    /\ status_log' = <<>>

\* The button pressed with an empty URL: st.error, no pipeline run.
ClickEmpty ==
    /\ pc \in Resting
    /\ video_url = <<>>
    /\ pc' = "Idle"
    /\ raw_data' = NoList
    /\ transcript' = NoneVal
    /\ method' = "none"
    /\ calls' = <<>>
    /\ temp_dir' = "none"
    /\ temp_files' = {}
    /\ downloaded' = "none"
    /\ audio_files' = NoList
    /\ actual_audio_path' = NoneVal
    /\ messages' = <<MsgEmptyUrl>>
    /\ file_name' = NoneVal
    /\ progress_bar' = <<>>
    /\ status_text' = <<>>
    /\ status_log' = <<>>
    /\ UNCHANGED <<video_url, debug_video_id>>

\* The button pressed with a URL: the handler starts and shows its first
\* status.
ClickGenerate ==
    /\ pc \in Resting
    /\ video_url # <<>>
    /\ pc' = "CheckingCaptions"
    /\ raw_data' = NoList
    /\ transcript' = NoneVal
    /\ method' = "none"
    /\ calls' = <<>>
    /\ temp_dir' = "none"
    /\ temp_files' = {}
    /\ downloaded' = "none"
    /\ audio_files' = NoList
    /\ actual_audio_path' = NoneVal
    /\ messages' = <<>>
    /\ file_name' = NoneVal
    /\ status_text' = <<StatusChecking>>
    /\ status_log' = <<StatusChecking>>
    /\ progress_bar' = <<20>>
    /\ UNCHANGED <<video_url, debug_video_id>>

\* The handler after get_existing_transcript returned (t, m), having made
\* the collaborator calls cs and fetched the snippets rd.
AfterCaptions(t, m, cs, rd) ==
    /\ transcript' = t
    /\ method' = m
    /\ calls' = calls \o cs
    /\ raw_data' = rd
    /\ IF CaptionsBranch(t, m)
       THEN /\ status_log' = Append(status_log, StatusFound)
            /\ messages' = messages \o <<MsgCaptionsDone, MsgCopyHint>>
            /\ file_name' = CaptionsFileName(video_url)
            /\ ClearIndicators
            /\ pc' = "Done"
            /\ UNCHANGED <<temp_dir, temp_files>>
       ELSE /\ Show(StatusDownloading, 40)
            /\ temp_dir' = "exists"
            /\ temp_files' = {}
            /\ pc' = "DownloadingAudio"
            /\ UNCHANGED <<messages, file_name>>
    /\ UNCHANGED <<video_url, debug_video_id, downloaded, audio_files,
                   actual_audio_path>>

\* get_existing_transcript: no video id in the URL.
CaptionsInvalidUrl ==
    /\ pc = "CheckingCaptions"
    /\ extract_video_id(video_url) = NoneVal
    /\ AfterCaptions(NoneVal, "Invalid URL", <<>>, NoList)

\* get_existing_transcript: the captions collaborator returns snippets.
CaptionsFetched ==
    /\ pc = "CheckingCaptions"
    /\ extract_video_id(video_url) # NoneVal
    /\ \E snippets \in SnippetSeqs :
        AfterCaptions(JoinLines(snippets), "captions", <<"fetch">>, snippets)

\* get_existing_transcript: the captions collaborator raises.
CaptionsRaised ==
    /\ pc = "CheckingCaptions"
    /\ extract_video_id(video_url) # NoneVal
    /\ AfterCaptions(NoneVal, "No captions", <<"fetch">>, NoList)

\* download_audio returns True, leaving files in the temporary directory.
DownloadSucceeds ==
    /\ pc = "DownloadingAudio"
    /\ calls' = Append(calls, "download")
    /\ \E F \in FileSets : temp_files' = F
    /\ downloaded' = "True"
    /\ Show(StatusTranscribing, 70)
    /\ pc' = "FindingAudio"
    /\ UNCHANGED <<video_url, debug_video_id, raw_data, transcript, method,
                   temp_dir, audio_files, actual_audio_path, messages,
                   file_name>>

\* A handler that ignores what download_audio returned and goes on to the
\* directory scan.
DownloadFailsIgnored ==
    /\ pc = "DownloadingAudio"
    /\ calls' = Append(calls, "download")
    /\ downloaded' = "False"
    /\ messages' = Append(messages, MsgDownloadRaised)
    /\ Show(StatusTranscribing, 70)
    /\ pc' = "FindingAudio"
    /\ UNCHANGED <<video_url, debug_video_id, raw_data, transcript, method,
                   temp_dir, temp_files, audio_files, actual_audio_path,
                   file_name>>

\* The download collaborator raises: download_audio reports it and returns
\* False, the handler reports the failure and leaves the scope.
DownloadFails ==
    /\ pc = "DownloadingAudio"
    /\ calls' = Append(calls, "download")
    /\ downloaded' = "False"
    /\ messages' = messages \o <<MsgDownloadRaised, MsgDownloadFailed>>
    /\ temp_dir' = ScopeExit(temp_dir)
    /\ temp_files' = {}
    /\ ClearIndicators
    /\ pc' = "Failed"
    /\ UNCHANGED <<video_url, debug_video_id, raw_data, transcript, method,
                   audio_files, actual_audio_path, file_name, status_log>>

\* os.listdir returns: the handler picks the first file that starts with
\* "audio", or reports that there is none.
ListDirReturns ==
    /\ pc = "FindingAudio"
    /\ calls' = Append(calls, "listdir")
    /\ \E listing \in Listings(temp_files) :
        LET found == AudioFiles(listing)
        IN /\ audio_files' = found
           /\ IF found # <<>>
              THEN /\ actual_audio_path' = found[1]
                   /\ pc' = "Transcribing"
                   /\ UNCHANGED <<temp_dir, temp_files, messages,
                                  progress_bar, status_text>>
              ELSE /\ messages' = Append(messages, MsgAudioMissing)
                   /\ temp_dir' = ScopeExit(temp_dir)
                   /\ temp_files' = {}
                   /\ ClearIndicators
                   /\ pc' = "Failed"
                   /\ UNCHANGED actual_audio_path
    /\ UNCHANGED <<video_url, debug_video_id, raw_data, transcript, method,
                   downloaded, file_name, status_log>>

\* A directory made with mkdtemp and removed by hand at the end of the
\* block: an exception skips the removal.
ListDirRaisesNoCleanup ==
    /\ pc = "FindingAudio"
    /\ calls' = Append(calls, "listdir")
    /\ messages' = Append(messages, MsgCatchAll)
    /\ ClearIndicators
    /\ pc' = "Failed"
    /\ UNCHANGED <<video_url, debug_video_id, raw_data, transcript, method,
                   temp_dir, temp_files, downloaded, audio_files,
                   actual_audio_path, file_name, status_log>>

\* os.listdir raises inside the scope: the scope is left, the handler's
\* catch-all reports the exception.
ListDirRaises ==
    /\ pc = "FindingAudio"
    /\ calls' = Append(calls, "listdir")
    /\ temp_dir' = ScopeExit(temp_dir)
    /\ temp_files' = {}
    /\ messages' = Append(messages, MsgCatchAll)
    /\ ClearIndicators
    /\ pc' = "Failed"
    /\ UNCHANGED <<video_url, debug_video_id, raw_data, transcript, method,
                   downloaded, audio_files, actual_audio_path, file_name,
                   status_log>>

\* The handler after transcribe_with_whisper returned (t, m).
AfterTranscribe(t, m) ==
    /\ calls' = Append(calls, "transcribe")
    /\ transcript' = t
    /\ method' = m
    /\ IF TranscriptOk(t)
       THEN /\ status_log' = Append(status_log, StatusCompleted)
            /\ messages' = messages \o <<MsgWhisperDone, MsgModelInfo>>
            /\ file_name' = WhisperFileName(video_url)
            /\ pc' = "Done"
       ELSE /\ messages' = Append(messages, MsgTranscribeFailed)
            /\ pc' = "Failed"
            /\ UNCHANGED <<file_name, status_log>>
    /\ temp_dir' = ScopeExit(temp_dir)
    /\ temp_files' = {}
    /\ ClearIndicators
    /\ UNCHANGED <<video_url, debug_video_id, raw_data, downloaded,
                   audio_files, actual_audio_path>>

\* The speech model returns result["text"].
TranscribeReturns ==
    /\ pc = "Transcribing"
    /\ \E text \in Texts : AfterTranscribe(text, "whisper")

\* A handler that answers a failed transcription with another download.
TranscribeRaisesRetry ==
    /\ pc = "Transcribing"
    /\ calls' = Append(calls, "transcribe")
    /\ transcript' = NoneVal
    /\ method' = "Transcription failed"
    /\ Show(StatusDownloading, 40)
    /\ pc' = "DownloadingAudio"
    /\ UNCHANGED <<video_url, debug_video_id, raw_data, temp_dir, temp_files,
                   downloaded, audio_files, actual_audio_path, messages,
                   file_name>>

\* Loading or running the speech model raises.
TranscribeRaises ==
    /\ pc = "Transcribing"
    /\ AfterTranscribe(NoneVal, "Transcription failed")

\* A step of a running handler.
HandlerStep ==
    \/ CaptionsInvalidUrl
    \/ CaptionsFetched
    \/ CaptionsRaised
    \/ DownloadSucceeds
    \/ DownloadFails
    \/ ListDirReturns
    \/ ListDirRaises
    \/ TranscribeReturns
    \/ TranscribeRaises

Next ==
    \/ EnterUrl
    \/ ClickEmpty
    \/ ClickGenerate
    \/ HandlerStep

Spec == Init /\ [][Next]_vars

\* --------------------------------------------------------------- claims

InSeq(x, seq) == \E i \in DOMAIN seq : seq[i] = x

Count(x, seq) == Cardinality({ i \in DOMAIN seq : seq[i] = x })

Finished == {"Done", "Failed"}

\* v is 11 characters of the identifier alphabet.
IsIdText(v) == Len(v) = 11 /\ \A i \in 1..Len(v) : v[i] \in IdChars

\* The heads of the three documented shapes: watch?v=, youtu.be/, embed/.
ShapeHeads ==
    { <<"w", "a", "t", "c", "h", "?", "v", "=">>,
      <<"y", "o", "u", "t", "u", ".", "b", "e", "/">>,
      <<"e", "m", "b", "e", "d", "/">> }

\* Position j of url starts 11 identifier characters directly after a head.
IdAfterHead(url, j) ==
    /\ \E h \in ShapeHeads : j > Len(h) /\ SubSeq(url, j - Len(h), j - 1) = h
    /\ j + 10 <= Len(url)
    /\ \A k \in j..(j + 10) : url[k] \in IdChars

ContainsShapeId(url) == \E j \in 1..Len(url) : IdAfterHead(url, j)

\* v is a whole identifier token of url: it follows a head and no further
\* identifier character follows it.
IsWholeShapeId(url, v) ==
    \E j \in 1..Len(url) :
        /\ IdAfterHead(url, j)
        /\ SubSeq(url, j, j + 10) = v
        /\ (j + 11 <= Len(url) => url[j + 11] \notin IdChars)

\* C1: for every URL of one of the three supported shapes built around an
\* 11-character identifier, whatever follows the first '&' or '?', the
\* extractor returns exactly that identifier.
C1_ShapeUrlYieldsItsId ==
    \A id \in VideoIds : video_url \in ShapeUrls(id) => debug_video_id = id

\* C2: a run started with a non-empty URL that has no video identifier
\* invokes no collaborator and ends in Failed with reason "Invalid URL".
C2_InvalidUrlShortCircuits ==
    (pc # "Idle" /\ video_url # <<>> /\ extract_video_id(video_url) = NoneVal)
        => /\ calls = <<>>
           /\ pc \in Finished => (pc = "Failed" /\ method = "Invalid URL")

\* The newline-joined texts, built from the left.
RECURSIVE JoinedUpTo(_, _)
JoinedUpTo(texts, n) ==
    IF n = 0 THEN <<>>
    ELSE IF n = 1 THEN texts[1]
    ELSE JoinedUpTo(texts, n - 1) \o <<"\n">> \o texts[n]

CaptionsReturned == raw_data # NoList

\* C3 as stated: whenever the captions collaborator returned, for every
\* sequence of snippets, the run is Done(captions) with the newline-joined
\* texts and the download was never invoked.
C3_CaptionsAlwaysDone ==
    CaptionsReturned
        => /\ pc = "Done"
           /\ method = "captions"
           /\ transcript = JoinedUpTo(raw_data, Len(raw_data))
           /\ ~InSeq("download", calls)

\* C3 amended: whenever the captions collaborator returned, the captions
\* stage yields the newline-joined texts tagged "captions"; if that text is
\* non-empty the run is Done(captions) with it, no temporary directory was
\* made and the download was never invoked; if it is empty the run goes on
\* to the audio download like a run without captions.
C3_NonEmptyCaptionsDone ==
    CaptionsReturned
        => LET joined == JoinedUpTo(raw_data, Len(raw_data))
           IN /\ joined # <<>>
                    => /\ pc = "Done"
                       /\ method = "captions"
                       /\ transcript = joined
                       /\ ~InSeq("download", calls)
                       /\ temp_dir = "none"
              /\ joined = <<>>
                    => /\ pc # "Done" \/ method = "whisper"
                       /\ InSeq(StatusDownloading, status_log)
                       /\ ~InSeq("transcribe", calls)
                            => (transcript = <<>> /\ method = "captions")

C3_Witness ==
    /\ pc = "Done"
    /\ method = "captions"
    /\ Len(raw_data) = 2
    /\ raw_data[1] # <<>>
    /\ raw_data[2] # <<>>
    /\ InSeq("\n", transcript)

\* C4: an input without an 11-character identifier in one of the three
\* shapes yields None, and a returned value is always 11 identifier
\* characters that form a whole identifier token of one of the shapes.
C4_OnlyWholeShapeIds ==
    debug_video_id # Hidden
        => /\ ~ContainsShapeId(video_url) => debug_video_id = NoneVal
           /\ debug_video_id # NoneVal
                => /\ IsIdText(debug_video_id)
                   /\ IsWholeShapeId(video_url, debug_video_id)

\* C5: once a run that made the temporary directory has ended, on any
\* exit path, the directory is gone.
C5_TempDirRemoved ==
    /\ pc \in Resting => (temp_dir # "exists" /\ temp_files = {})
    /\ (pc \in Finished /\ InSeq(StatusDownloading, status_log))
            => temp_dir = "removed"

C5_Witness ==
    /\ pc = "Failed"
    /\ InSeq(MsgCatchAll, messages)
    /\ InSeq("listdir", calls)
    /\ temp_dir = "removed"

\* C6: in a Done state the download is named transcript_<id>.txt (captions)
\* or ai_transcript_<id>.txt (Whisper), <id> being the 11-character video
\* identifier of the input URL.
C6_FileNameCarriesId ==
    pc = "Done"
        => \E id \in { extract_video_id(video_url) } :
              /\ IsIdText(id)
              /\ method = "captions" => file_name = TranscriptPrefix \o id \o TxtSuffix
              /\ method = "whisper" => file_name = AiTranscriptPrefix \o id \o TxtSuffix

NoAudioFile(files) ==
    \A f \in files : Len(f) < 5 \/ SubSeq(f, 1, 5) # <<"a", "u", "d", "i", "o">>

\* C7 as stated: after a successful download that left no file starting
\* with "audio", the run ends in Failed with "Audio file not found after
\* download" and the transcriber is not invoked.
C7_MissingAudioAlwaysReported ==
    [][(pc = "FindingAudio" /\ NoAudioFile(temp_files))
            => /\ pc' = "Failed"
               /\ InSeq(MsgAudioMissing, messages')
               /\ ~InSeq("transcribe", calls')]_vars

\* C7 amended: after a successful download that left no file starting with
\* "audio", the run ends in Failed and the transcriber is not invoked; the
\* message is "Audio file not found after download" when the directory
\* listing returns, and the catch-all's when the listing raises.
C7_MissingAudioFails ==
    [][(pc = "FindingAudio" /\ NoAudioFile(temp_files))
            => /\ pc' = "Failed"
               /\ ~InSeq("transcribe", calls')
               /\ audio_files' # NoList
                    => (InSeq(MsgAudioMissing, messages') /\ ~InSeq(MsgCatchAll, messages'))
               /\ audio_files' = NoList
                    => (InSeq(MsgCatchAll, messages') /\ ~InSeq(MsgAudioMissing, messages'))]_vars

C7_Witness ==
    /\ pc = "Failed"
    /\ downloaded = "True"
    /\ audio_files = <<>>
    /\ InSeq(MsgAudioMissing, messages)
    /\ ~InSeq("transcribe", calls)

\* C8: when download_audio returns False the run is Failed, the directory
\* scan and the transcriber were not run, and the exception was reported by
\* download_audio itself, not by the handler's catch-all.
C8_DownloadFailureIsTerminal ==
    downloaded = "False"
        => /\ pc = "Failed"
           /\ ~InSeq("listdir", calls)
           /\ ~InSeq("transcribe", calls)
           /\ audio_files = NoList
           /\ InSeq(MsgDownloadRaised, messages)
           /\ ~InSeq(MsgCatchAll, messages)

C8_Witness ==
    /\ downloaded = "False"
    /\ pc = "Failed"
    /\ calls[Len(calls)] = "download"

CallRank(c) ==
    CASE c = "fetch" -> 1
      [] c = "download" -> 2
      [] c = "listdir" -> 3
      [] c = "transcribe" -> 4

StageRank(s) ==
    CASE s = StatusChecking -> 1
      [] s = StatusFound -> 2
      [] s = StatusDownloading -> 2
      [] s = StatusTranscribing -> 3
      [] s = StatusCompleted -> 4

CaptionsFetchRaised == InSeq("fetch", calls) /\ raw_data = NoList

\* C9: every run invokes each collaborator at most once, in the order
\* captions, download, transcription, and enters no stage twice; a run whose
\* captions fetch raised enters DownloadingAudio exactly once.
C9_EachStageAtMostOnce ==
    /\ \A i, j \in DOMAIN calls : i < j => CallRank(calls[i]) < CallRank(calls[j])
    /\ \A i, j \in DOMAIN status_log :
            i < j => StageRank(status_log[i]) < StageRank(status_log[j])
    /\ CaptionsFetchRaised
            => /\ Count(StatusDownloading, status_log) = 1
               /\ Count("download", calls) <= 1
               /\ pc \in Finished => Count("download", calls) = 1

C9_Witness ==
    /\ CaptionsFetchRaised
    /\ pc = "Failed"
    /\ method = "Transcription failed"
    /\ calls = <<"fetch", "download", "listdir", "transcribe">>

HasSuccess == \E i \in DOMAIN messages : messages[i][1] = "success"

HasError == \E i \in DOMAIN messages : messages[i][1] = "error"

C10_Outcome ==
    /\ pc \in {"Idle", "CheckingCaptions", "DownloadingAudio", "FindingAudio",
               "Transcribing", "Done", "Failed"}
    /\ pc = "Done"
            => /\ HasSuccess /\ ~HasError
               /\ transcript # NoneVal /\ transcript # <<>>
               /\ method \in {"captions", "whisper"}
    /\ pc = "Failed" => (HasError /\ ~HasSuccess /\ file_name = NoneVal)
    /\ (InSeq("transcribe", calls) /\ (transcript = NoneVal \/ transcript = <<>>))
            => pc = "Failed"
    /\ pc \in Resting => (status_text = <<>> /\ progress_bar = <<>>)

PcRank(p) ==
    CASE p = "Idle" -> 0
      [] p = "CheckingCaptions" -> 1
      [] p = "DownloadingAudio" -> 2
      [] p = "FindingAudio" -> 3
      [] p = "Transcribing" -> 4
      [] p \in Finished -> 5

\* C10: whatever the collaborators do (return, return nothing, raise),
\* every step of a running handler moves it on towards its end, it ends in
\* exactly one of Done and Failed with a message shown, a transcriber that
\* raises or returns no text gives Failed, and the progress and status
\* indicators are cleared afterwards.
C10_RunEndsInOneOutcome ==
    /\ C10_Outcome
    /\ [][/\ C10_Outcome'
          /\ pc \notin Resting => PcRank(pc') > PcRank(pc)]_vars

C10_Witness ==
    /\ pc = "Failed"
    /\ InSeq("transcribe", calls)
    /\ transcript = <<>>
    /\ method = "whisper"

====
